---- MODULE Spec2Model ----
(***************************************************************************)
(* Character preset manager: the command-line tool (preset_tool.py) and    *)
(* the GUI (preset_gui.py) driving the preset engine (character_presets /  *)
(* Save), with the save files, their ".backup" copies and the JSON         *)
(* interchange files on disk.                                              *)
(*                                                                         *)
(* The engine (Save.copy_preset_to_save, Save.import_preset_from_json,     *)
(* Save.export_presets, get_active_presets, FacePreset.is_empty) is not    *)
(* among the source files; it is modelled from the specification's         *)
(* sections 3, 4 and 6.  The callers are modelled from their code.         *)
(***************************************************************************)
EXTENDS Integers, Sequences, FiniteSets, TLC

VARIABLES
    disk,               \* save path -> content of the save file
    backup,             \* save path -> content of path + ".backup"
    json,               \* JSON path -> content of the interchange file
    current_save,       \* GUI: self.current_save (None or the loaded save)
    current_save_path,  \* GUI: self.current_save_path
    presets,            \* GUI: self.presets
    selected_slot,      \* GUI: self.selected_slot
    listbox,            \* GUI: lines of self.preset_listbox
    lastRun,            \* observation of the watched command (NoRun: none yet)
    budget,             \* number of commands the behaviour may still issue
    faults              \* number of file writes that failed so far

vars == <<disk, backup, json, current_save, current_save_path, presets,
          selected_slot, listbox, lastRun, budget, faults>>

----------------------------------------------------------------------------
(* Bounds of the model *)

\* user-typed slot numbers are drawn from 0..MaxSlotInput, 15 and 16
MaxSlotInput == 1
\* budget of one behaviour of the CLI and the GUI together (see Cost)
MaxOps == 4
\* budget of one behaviour of the GUI alone
MaxGuiOps == 6
\* number of file writes that fail in one behaviour
MaxFaults == 1

----------------------------------------------------------------------------
(* Program constants *)

\* the table has 15 slots (source_idx >= 15, "Slot must be between 1 and 15")
NumSlots == 15

Slots == 0 .. (NumSlots - 1)

\* Python's None and an object reference, as a sequence of length 0 or 1
None == <<>>
Some(x) == <<x>>
IsNone(o) == Len(o) = 0
Get(o) == o[1]

----------------------------------------------------------------------------
(* Field Schema: the declared fields of a record, in layout order.  A      *)
(* record is its buffer: one value per declared field, in this order.     *)

Schema == <<"body_type", "face_model", "hair_model">>

RecordWidth == Len(Schema)

FieldNames == {Schema[k] : k \in 1 .. RecordWidth}

FieldIndex(name) == CHOOSE k \in 1 .. RecordWidth : Schema[k] = name

\* every field of the modelled layout is a u8
MaxFieldValue == 255

\* decode(buffer) -> field value map
decode(buffer) == [name \in FieldNames |-> buffer[FieldIndex(name)]]

\* the fields laid out in the reverse of the schema's order
C20_encode_Reversed(m) == [k \in 1 .. RecordWidth |-> m[Schema[RecordWidth + 1 - k]]]

\* encode(field value map) -> buffer of exactly the record width
encode(m) == [k \in 1 .. RecordWidth |-> m[Schema[k]]]

----------------------------------------------------------------------------
(* Preset Record *)

EmptyRecord == [k \in 1 .. RecordWidth |-> 0]

\* only the first field inspected
C19_is_empty_FirstField(r) == r[1] = 0

is_empty(r) == \A k \in 1 .. RecordWidth : r[k] = 0

clone(r) == [k \in 1 .. RecordWidth |-> r[k]]

----------------------------------------------------------------------------
(* Preset Table: a function from the 15 slot indices to records *)

EmptyTable == [i \in Slots |-> EmptyRecord]

IsActiveEntry(e) == ~is_empty(e[2])

\* active_slots(): (index, record) of the non-empty slots, ascending
get_active_presets(t) ==
    SelectSeq([k \in 1 .. NumSlots |-> <<k - 1, t[k - 1]>>], IsActiveEntry)

slot(t, index) ==
    IF index \in Slots
    THEN [kind |-> "ok", record |-> t[index]]
    ELSE [kind |-> "SlotRangeError", record |-> EmptyRecord]

\* the slot's record object overwritten in place, so that every slot
\* sharing that object shows the new values
C9_replace_slot_Shared(t, index, r) ==
    IF index \in Slots
    THEN [kind |-> "ok",
          table |-> [n \in Slots |-> IF t[n] = t[index] THEN r ELSE t[n]]]
    ELSE [kind |-> "SlotRangeError", table |-> t]

\* a table rebuilt around the new record, the other slots left unused
C22_replace_slot_ClearsRest(t, index, r) ==
    IF index \in Slots
    THEN [kind |-> "ok",
          table |-> [n \in Slots |-> IF n = index THEN r ELSE EmptyRecord]]
    ELSE [kind |-> "SlotRangeError", table |-> t]

replace_slot(t, index, r) ==
    IF index \in Slots
    THEN [kind |-> "ok", table |-> [t EXCEPT ![index] = r]]
    ELSE [kind |-> "SlotRangeError", table |-> t]

----------------------------------------------------------------------------
(* Transplant Engine *)

\* dest_save.copy_preset_to_save(source_save, source_idx, dest_idx)
copy_preset_to_save(dest, source, source_idx, dest_idx) ==
    IF source_idx \notin Slots \/ dest_idx \notin Slots
    THEN [kind |-> "SlotRangeError", table |-> dest]
    ELSE IF is_empty(slot(source, source_idx).record)
    THEN [kind |-> "EmptySourceError", table |-> dest]
    ELSE [kind |-> "ok",
          table |-> replace_slot(dest, dest_idx,
                                 clone(slot(source, source_idx).record)).table]

ExportEntry(e) == [slot |-> e[1], data |-> decode(e[2])]

\* save.export_presets(path): the document written, one entry per active slot
export_presets(t) ==
    LET active == get_active_presets(t)
    IN  [presets |-> [k \in 1 .. Len(active) |-> ExportEntry(active[k])]]

\* the checks on the data mapping and the write, once the entry and the
\* destination are chosen
ImportEntry(dest, data, dest_idx) ==
    IF \E name \in DOMAIN data : name \notin FieldNames
    THEN [kind |-> "UnknownFieldError", table |-> dest]
    ELSE IF \E name \in FieldNames : name \notin DOMAIN data
    THEN [kind |-> "SchemaError", table |-> dest]
    ELSE IF \E name \in FieldNames :
               data[name] < 0 \/ data[name] > MaxFieldValue
    THEN [kind |-> "ValueRangeError", table |-> dest]
    ELSE [kind |-> "ok",
          table |-> replace_slot(dest, dest_idx, encode(data)).table]

\* both indices brought into range instead of being rejected
C12_import_Clamps(dest, doc, entry_index, dest_idx) ==
    LET e == IF entry_index < 0 THEN 0
             ELSE IF entry_index >= Len(doc.presets) THEN Len(doc.presets) - 1
             ELSE entry_index
        d == IF dest_idx < 0 THEN 0
             ELSE IF dest_idx >= NumSlots THEN NumSlots - 1
             ELSE dest_idx
    IN  ImportEntry(dest, doc.presets[e + 1].data, d)

\* an occupied destination slot refused, as copy refuses an empty source
C13_import_OnlyIntoEmpty(dest, doc, entry_index, dest_idx) ==
    IF entry_index < 0 \/ entry_index >= Len(doc.presets)
    THEN [kind |-> "EntryRangeError", table |-> dest]
    ELSE IF dest_idx \notin Slots
    THEN [kind |-> "DestRangeError", table |-> dest]
    ELSE IF ~is_empty(dest[dest_idx])
    THEN [kind |-> "OccupiedError", table |-> dest]
    ELSE ImportEntry(dest, doc.presets[entry_index + 1].data, dest_idx)

\* names the schema does not declare dropped, absent fields read as zero
C14_import_Lenient(dest, doc, entry_index, dest_idx) ==
    IF entry_index < 0 \/ entry_index >= Len(doc.presets)
    THEN [kind |-> "EntryRangeError", table |-> dest]
    ELSE IF dest_idx \notin Slots
    THEN [kind |-> "DestRangeError", table |-> dest]
    ELSE LET data == doc.presets[entry_index + 1].data
             known == [name \in FieldNames |->
                          IF name \in DOMAIN data THEN data[name] ELSE 0]
         IN  ImportEntry(dest, known, dest_idx)

\* the record written where it was exported from
C15_import_ToOriginalSlot(dest, doc, entry_index, dest_idx) ==
    IF entry_index < 0 \/ entry_index >= Len(doc.presets)
    THEN [kind |-> "EntryRangeError", table |-> dest]
    ELSE IF dest_idx \notin Slots
    THEN [kind |-> "DestRangeError", table |-> dest]
    ELSE ImportEntry(dest, doc.presets[entry_index + 1].data,
                     doc.presets[entry_index + 1].slot)

\* save.import_preset_from_json(json_path, entry_index, dest_idx), on the
\* document read from json_path
import_preset_from_json(dest, doc, entry_index, dest_idx) ==
    IF entry_index < 0 \/ entry_index >= Len(doc.presets)
    THEN [kind |-> "EntryRangeError", table |-> dest]
    ELSE IF dest_idx \notin Slots
    THEN [kind |-> "DestRangeError", table |-> dest]
    ELSE ImportEntry(dest, doc.presets[entry_index + 1].data, dest_idx)

----------------------------------------------------------------------------
(* Files *)

SavePaths == {"A", "B"}
JsonPaths == {"J", "K"}
\* an empty path entry / a cancelled file dialog
NoPath == ""

OkFile(t) == [kind |-> "ok", table |-> t]
Corrupt == [kind |-> "corrupt", table |-> EmptyTable]
Missing == [kind |-> "missing", table |-> EmptyTable]

\* os.path.exists(path)
os_path_exists(path) == path \in SavePaths

\* Save.from_file(path) raises for an unreadable file
Loads(path) == disk[path].kind = "ok"

\* how a file write can end: complete, refused before anything is written,
\* or interrupted after the target was truncated
IOOutcomes == {"ok", "fail", "partial"}

\* outcomes of the backup copy and of the save that follows it (the save is
\* not reached when the backup copy raises)
OkIO == <<"ok", "ok">>
IOPairs ==
    IF faults < MaxFaults
    THEN {<<"ok", ps>> : ps \in IOOutcomes} \cup {<<"fail", "ok">>, <<"partial", "ok">>}
    ELSE {OkIO}

\* outcomes of writing one file
IOSingles == IF faults < MaxFaults THEN IOOutcomes ELSE {"ok"}

WriteFile(old, new, io) ==
    CASE io = "ok" -> new
      [] io = "fail" -> old
      [] io = "partial" -> Corrupt

\* user-typed slot numbers (1-based), valid and invalid
UserSlots == (-1 .. MaxSlotInput) \cup {NumSlots, NumSlots + 1}

----------------------------------------------------------------------------
(* Initial content of the disk *)

\* save A holds two presets (the first with a zero first field), in its
\* first and last slot; save B holds none
RecA1 == <<0, 12, 5>>
RecA2 == <<1, 3, 7>>

TableA == [EmptyTable EXCEPT ![0] = RecA1, ![14] = RecA2]
TableB == EmptyTable

\* hand-written interchange documents a user may point the GUI at
GoodData == [body_type |-> 2, face_model |-> 40, hair_model |-> 2]
DocMixed ==
    [presets |-> <<
        [slot |-> 5, data |-> GoodData],
        [slot |-> 0, data |-> [body_type |-> 1, face_model |-> 8]],
        [slot |-> 1, data |-> [body_type |-> 1, face_model |-> 8,
                               hair_model |-> 1, wings |-> 3]],
        [slot |-> 2, data |-> [body_type |-> 0, face_model |-> 300,
                               hair_model |-> 1]] >>]
DocNoKey == [version |-> 1]

OkJson(doc) == [kind |-> "ok", doc |-> doc]
InvalidJson == [kind |-> "invalid", doc |-> DocNoKey]

----------------------------------------------------------------------------
(* Observation of one command: the operation, how it ended, the engine's   *)
(* result kind (or "not_called"), the file writes it attempted in order,   *)
(* its arguments, and the engine call's tables.  A behaviour is any        *)
(* sequence of commands followed by one watched command, whose observation *)
(* is kept in lastRun; nothing runs after the watched command.             *)

NoArgs == [src |-> "", sslot |-> 0, dst |-> "", dslot |-> 0, entry |-> 0]

Call(S, i, D, j, D2) == [S |-> S, i |-> i, D |-> D, j |-> j, D2 |-> D2]

Run(op, outcome, engine, fs, args, call) ==
    [op |-> op, outcome |-> outcome, engine |-> engine, fs |-> fs,
     args |-> args, call |-> call, out |-> None]

\* a command that only displays: out is what it printed
Shown(op, outcome, args, out) ==
    [op |-> op, outcome |-> outcome, engine |-> "not_called", fs |-> <<>>,
     args |-> args, call |-> None, out |-> out]

\* a command that also displays something: out is what it showed
Titled(run, out) == [run EXCEPT !.out = out]

NoRun == Run("none", "none", "not_called", <<>>, NoArgs, None)

\* the budget of a behaviour counts a command that can write a save file
\* twice and any other command once
Cost(op) == IF op \in {"cli_copy", "gui_copy", "gui_import"} THEN 2 ELSE 1

Ready(op) == lastRun = NoRun /\ budget >= Cost(op)

Command(run) ==
    /\ budget' = budget - Cost(run.op)
    /\ lastRun' \in {NoRun, run}

Fault(failed) == faults' = IF failed THEN faults + 1 ELSE faults

GuiUnchanged ==
    UNCHANGED <<current_save, current_save_path, presets, selected_slot,
                listbox>>

----------------------------------------------------------------------------
(* Backup, then save: the sequence every persisting caller runs after a    *)
(* successful engine call.  shutil.copy2(path, path + ".backup") copies    *)
(* the file as it is on disk; save(path) then writes the mutated table.    *)
(* Either write may raise, which ends the handler in its except clause.    *)

\* the save issued first, the backup copy after it
C3_BackupThenSave_SaveFirst(path, newTable, bk, ps) ==
    IF ps # "ok"
    THEN [backup |-> backup[path],
          file |-> WriteFile(disk[path], OkFile(newTable), ps),
          fs |-> <<"persist">>,
          outcome |-> "persist_error"]
    ELSE [backup |-> WriteFile(backup[path], OkFile(newTable), bk),
          file |-> OkFile(newTable),
          fs |-> <<"persist", "backup">>,
          outcome |-> IF bk = "ok" THEN "ok" ELSE "backup_error"]

\* a failed backup copy passed over, the save issued all the same
C25_BackupThenSave_SaveAnyway(path, newTable, bk, ps) ==
    [backup |-> WriteFile(backup[path], disk[path], bk),
     file |-> WriteFile(disk[path], OkFile(newTable), ps),
     fs |-> <<"backup", "persist">>,
     outcome |-> IF ps # "ok" THEN "persist_error"
                 ELSE IF bk # "ok" THEN "backup_error" ELSE "ok"]

\* an existing backup file kept, the copy made only when there is none
C26_BackupThenSave_KeepsFirst(path, newTable, bk, ps) ==
    LET kept == IF backup[path] = Missing THEN disk[path] ELSE backup[path]
    IN  IF bk # "ok"
        THEN [backup |-> WriteFile(backup[path], kept, bk),
              file |-> disk[path],
              fs |-> <<"backup">>,
              outcome |-> "backup_error"]
        ELSE [backup |-> WriteFile(backup[path], kept, bk),
              file |-> WriteFile(disk[path], OkFile(newTable), ps),
              fs |-> <<"backup", "persist">>,
              outcome |-> IF ps = "ok" THEN "ok" ELSE "persist_error"]

BackupThenSave(path, newTable, bk, ps) ==
    IF bk # "ok"
    THEN [backup |-> WriteFile(backup[path], disk[path], bk),
          file |-> disk[path],
          fs |-> <<"backup">>,
          outcome |-> "backup_error"]
    ELSE [backup |-> WriteFile(backup[path], disk[path], bk),
          file |-> WriteFile(disk[path], OkFile(newTable), ps),
          fs |-> <<"backup", "persist">>,
          outcome |-> IF ps = "ok" THEN "ok" ELSE "persist_error"]

----------------------------------------------------------------------------
(* preset_tool.py: copy *)

\* "user provides 1-15, we use 0-14"
\* the source slot number used as the index
C16_CliSourceIndex_NoShift(source_slot) == source_slot

CliSourceIndex(source_slot) == source_slot - 1

C5_CliDestIndex_NoShift(dest_slot) == dest_slot

CliDestIndex(dest_slot) == dest_slot - 1

C6_CliIndexOk_OffByOne(idx) == ~(idx < 0 \/ idx > NumSlots)

\* the negation of "idx < 0 or idx >= 15"
CliIndexOk(idx) == ~(idx < 0 \/ idx >= NumSlots)

C1_CliCopySucceeded_IgnoresResult(result) == TRUE

C10_CliCopySucceeded_Negated(result) == result.kind # "ok"

\* "if success:"
CliCopySucceeded(result) == result.kind = "ok"

CliCopy(sp, ss, dp, ds) ==
    LET args == [NoArgs EXCEPT !.src = sp, !.sslot = ss, !.dst = dp, !.dslot = ds]
        source_idx == CliSourceIndex(ss)
        dest_idx == CliDestIndex(ds)
        S == disk[sp].table
        D == disk[dp].table
        result == copy_preset_to_save(D, S, source_idx, dest_idx)
        call == Some(Call(S, source_idx, D, dest_idx, result.table))
    IN  /\ Ready("cli_copy")
        /\ GuiUnchanged
        /\ UNCHANGED json
        /\ IF ~Loads(sp) \/ ~Loads(dp)
           THEN /\ Command(Run("cli_copy", "load_error", "not_called", <<>>, args, None))
                /\ UNCHANGED <<disk, backup, faults>>
           ELSE IF ~CliIndexOk(source_idx)
           THEN /\ Command(Run("cli_copy", "source_range", "not_called", <<>>, args, None))
                /\ UNCHANGED <<disk, backup, faults>>
           ELSE IF ~CliIndexOk(dest_idx)
           THEN /\ Command(Run("cli_copy", "dest_range", "not_called", <<>>, args, None))
                /\ UNCHANGED <<disk, backup, faults>>
           ELSE IF CliCopySucceeded(result)
           THEN \E io \in IOPairs :
                  LET saved == BackupThenSave(dp, result.table, io[1], io[2])
                  IN  /\ Command(Run("cli_copy", saved.outcome, result.kind,
                                     saved.fs, args, call))
                      /\ Fault(io # OkIO)
                      /\ backup' = [backup EXCEPT ![dp] = saved.backup]
                      /\ disk' = [disk EXCEPT ![dp] = saved.file]
           ELSE /\ Command(Run("cli_copy", "copy_failed", result.kind, <<>>, args, call))
                /\ UNCHANGED <<disk, backup, faults>>

\* main(): int(sys.argv[3]) / int(sys.argv[5]) raises ValueError
CliCopyNotInt ==
    /\ Ready("cli_copy")
    /\ Command(Run("cli_copy", "value_error", "not_called", <<>>, NoArgs, None))
    /\ GuiUnchanged
    /\ UNCHANGED <<disk, backup, json, faults>>

----------------------------------------------------------------------------
(* preset_tool.py: info *)

\* body_type(): B only for the discriminator value 1, A otherwise
get_body_type(r) == IF r[FieldIndex("body_type")] = 1 THEN 1 ELSE 0

\* presets.presets[idx] on the Python list of the 15 records: a negative
\* index counts from the end, anything else out of range raises IndexError
list_index(t, idx) ==
    IF idx \in DOMAIN t THEN [kind |-> "ok", record |-> t[idx]]
    ELSE IF idx < 0 /\ idx + Cardinality(DOMAIN t) \in DOMAIN t
    THEN [kind |-> "ok", record |-> t[idx + Cardinality(DOMAIN t)]]
    ELSE [kind |-> "IndexError", record |-> EmptyRecord]

CliInfoIndex(slot_number) == slot_number - 1

C7_CliInfoIndexOk_Sixteen(slot_idx) == ~(slot_idx < 0 \/ slot_idx > NumSlots)

\* the negation of "slot_idx < 0 or slot_idx >= 15"
CliInfoIndexOk(slot_idx) == ~(slot_idx < 0 \/ slot_idx >= NumSlots)

CliInfoBodyType(r) == IF get_body_type(r) = 0 THEN "Type A (Male)" ELSE "Type B (Female)"

CliInfo(p, n) ==
    LET args == [NoArgs EXCEPT !.src = p, !.sslot = n]
        slot_idx == CliInfoIndex(n)
        preset == list_index(disk[p].table, slot_idx)
    IN  /\ Ready("cli_info")
        /\ GuiUnchanged
        /\ UNCHANGED <<disk, backup, json, faults>>
        /\ IF ~Loads(p)
           THEN Command(Shown("cli_info", "load_error", args, None))
           ELSE IF ~CliInfoIndexOk(slot_idx)
           THEN Command(Shown("cli_info", "slot_range", args, None))
           ELSE IF preset.kind # "ok"
           THEN Command(Shown("cli_info", "exception", args, None))
           ELSE IF is_empty(preset.record)
           THEN Command(Shown("cli_info", "empty", args, Some([slot |-> n])))
           ELSE Command(Shown("cli_info", "shown", args,
                              Some([slot |-> n,
                                    body |-> CliInfoBodyType(preset.record),
                                    record |-> preset.record])))

----------------------------------------------------------------------------
(* preset_tool.py: export and list *)

\* the three outcomes of writing the export file
WriteJson(old, doc, io) ==
    CASE io = "ok" -> OkJson(doc)
      [] io = "fail" -> old
      [] io = "partial" -> InvalidJson

C11_CliExportOutcome_EmptyFails(count) == IF count > 0 THEN "ok" ELSE "export_error"

\* "if count > 0:" success message, else "No active presets found to export"
CliExportOutcome(count) == IF count > 0 THEN "ok" ELSE "none_exported"

\* the export preceded by a backup copy of the save file, as copy makes one
C29_CliExport_WithBackup(p, q) ==
    LET args == [NoArgs EXCEPT !.src = p, !.dst = q]
        doc == export_presets(disk[p].table)
        count == Len(doc.presets)
    IN  /\ Ready("cli_export")
        /\ GuiUnchanged
        /\ UNCHANGED disk
        /\ IF ~Loads(p)
           THEN /\ Command(Run("cli_export", "load_error", "not_called", <<>>, args, None))
                /\ UNCHANGED <<json, backup, faults>>
           ELSE \E io \in IOSingles :
                  /\ backup' = [backup EXCEPT ![p] = disk[p]]
                  /\ json' = [json EXCEPT ![q] = WriteJson(@, doc, io)]
                  /\ Fault(io # "ok")
                  /\ Command([Run("cli_export",
                                  IF io = "ok" THEN CliExportOutcome(count)
                                  ELSE "export_error",
                                  "export", <<"export">>, args, None)
                              EXCEPT !.out = Some([count |-> count])])

\* export_presets(save_path, output_path)
CliExport(p, q) ==
    LET args == [NoArgs EXCEPT !.src = p, !.dst = q]
        doc == export_presets(disk[p].table)
        count == Len(doc.presets)
    IN  /\ Ready("cli_export")
        /\ GuiUnchanged
        /\ UNCHANGED <<disk, backup>>
        /\ IF ~Loads(p)
           THEN /\ Command(Run("cli_export", "load_error", "not_called", <<>>, args, None))
                /\ UNCHANGED <<json, faults>>
           ELSE \E io \in IOSingles :
                  /\ json' = [json EXCEPT ![q] = WriteJson(@, doc, io)]
                  /\ Fault(io # "ok")
                  /\ Command([Run("cli_export",
                                  IF io = "ok" THEN CliExportOutcome(count)
                                  ELSE "export_error",
                                  "export", <<"export">>, args, None)
                              EXCEPT !.out = Some([count |-> count])])

CliListBodyType(r) == IF get_body_type(r) = 0 THEN "Type A" ELSE "Type B"

\* one printed block of list_presets: "Slot {slot + 1}:" and the body type
CliListLine(e) == [slot |-> e[1] + 1, body |-> CliListBodyType(e[2])]

\* list_presets(save_path)
CliList(p) ==
    LET args == [NoArgs EXCEPT !.src = p]
        active == get_active_presets(disk[p].table)
    IN  /\ Ready("cli_list")
        /\ GuiUnchanged
        /\ UNCHANGED <<disk, backup, json, faults>>
        /\ IF ~Loads(p)
           THEN Command(Shown("cli_list", "load_error", args, None))
           ELSE IF Len(active) = 0
           THEN Command(Shown("cli_list", "none", args,
                              Some([count |-> 0, lines |-> <<>>])))
           ELSE Command(Shown("cli_list", "shown", args,
                              Some([count |-> Len(active),
                                    lines |-> [k \in 1 .. Len(active) |->
                                                  CliListLine(active[k])]])))

----------------------------------------------------------------------------
(* preset_gui.py *)

NoPresetsLine == [slot |-> 0, body |-> "No presets found in this save file"]

ListLine(e) ==
    [slot |-> e[1] + 1,
     body |-> IF get_body_type(e[2]) = 0 THEN "Type A" ELSE "Type B"]

\* each line inserted at the top of the list instead of at its end
C8_populate_preset_list_Prepend(p) ==
    IF IsNone(p)
    THEN <<>>
    ELSE LET active_presets == get_active_presets(Get(p))
             n == Len(active_presets)
         IN  IF n = 0
             THEN <<NoPresetsLine>>
             ELSE [k \in 1 .. n |-> ListLine(active_presets[n + 1 - k])]

populate_preset_list(p) ==
    IF IsNone(p)
    THEN <<>>
    ELSE LET active_presets == get_active_presets(Get(p))
         IN  IF Len(active_presets) = 0
             THEN <<NoPresetsLine>>
             ELSE [k \in 1 .. Len(active_presets) |-> ListLine(active_presets[k])]

\* load_presets, with the path entry holding p
GuiLoad(p) ==
    /\ Ready("gui_load")
    /\ UNCHANGED <<disk, backup, json, selected_slot, faults>>
    /\ LET args == [NoArgs EXCEPT !.src = p]
       IN  IF p = NoPath \/ ~os_path_exists(p)
           THEN /\ Command(Run("gui_load", "invalid_path", "not_called", <<>>, args, None))
                /\ UNCHANGED <<current_save, current_save_path, presets, listbox>>
           ELSE IF ~Loads(p)
           THEN /\ Command(Run("gui_load", "load_error", "not_called", <<>>, args, None))
                /\ UNCHANGED <<current_save, current_save_path, presets, listbox>>
           ELSE /\ current_save' = Some(disk[p].table)
                /\ current_save_path' = Some(p)
                /\ presets' = Some(disk[p].table)
                /\ listbox' = populate_preset_list(presets')
                /\ Command(Run("gui_load", "ok", "not_called", <<>>, args, None))

\* on_preset_select, with line number sel (0-based) of the list selected
GuiSelect(sel) ==
    /\ Ready("gui_select")
    /\ sel \in 0 .. (Len(listbox) - 1)
    /\ ~IsNone(presets)
    /\ UNCHANGED <<disk, backup, json, current_save, current_save_path,
                   presets, listbox, faults>>
    /\ LET active_presets == get_active_presets(Get(presets))
       IN  /\ selected_slot' = IF sel < Len(active_presets)
                               THEN Some(active_presets[sel + 1][1])
                               ELSE selected_slot
           /\ Command(Run("gui_select", "ok", "not_called", <<>>,
                          [NoArgs EXCEPT !.entry = sel], None))

GuiDetailsBodyType(r) == IF get_body_type(r) = 0 THEN "Type A (Male)" ELSE "Type B (Female)"

\* show_preset_details: the Details button, or a double click on the list
GuiDetails ==
    /\ Ready("gui_details")
    /\ GuiUnchanged
    /\ UNCHANGED <<disk, backup, json, faults>>
    /\ IF IsNone(selected_slot)
       THEN Command(Shown("gui_details", "no_selection", NoArgs, None))
       ELSE LET preset == list_index(Get(presets), Get(selected_slot))
                args == [NoArgs EXCEPT !.sslot = Get(selected_slot) + 1]
            IN  IF preset.kind # "ok"
                THEN Command(Shown("gui_details", "exception", args, None))
                ELSE IF is_empty(preset.record)
                THEN Command(Shown("gui_details", "empty", args, None))
                ELSE Command(Shown("gui_details", "shown", args,
                                   Some([slot |-> Get(selected_slot) + 1,
                                         body |-> GuiDetailsBodyType(preset.record),
                                         record |-> preset.record])))

\* the export run without asking whether a save file is loaded
C27_GuiExport_Unchecked(q) ==
    /\ Ready("gui_export")
    /\ GuiUnchanged
    /\ UNCHANGED <<disk, backup>>
    /\ LET args == [NoArgs EXCEPT !.dst = q]
           table == IF IsNone(current_save) THEN EmptyTable ELSE Get(current_save)
       IN  IF q = NoPath
           THEN /\ Command(Run("gui_export", "cancelled", "not_called", <<>>, args, None))
                /\ UNCHANGED <<json, faults>>
           ELSE \E io \in IOSingles :
                  /\ json' = [json EXCEPT ![q] = WriteJson(@, export_presets(table), io)]
                  /\ Fault(io # "ok")
                  /\ Command([Run("gui_export",
                                  IF io = "ok" THEN "ok" ELSE "export_error",
                                  "export", <<"export">>, args, None)
                              EXCEPT !.out =
                                Some([count |-> Len(export_presets(table).presets)])])

\* export_presets, with q chosen in the save-as dialog (NoPath: cancelled)
GuiExport(q) ==
    /\ Ready("gui_export")
    /\ GuiUnchanged
    /\ UNCHANGED <<disk, backup>>
    /\ LET args == [NoArgs EXCEPT !.dst = q]
       IN  IF IsNone(current_save)
           THEN /\ Command(Run("gui_export", "no_save", "not_called", <<>>, args, None))
                /\ UNCHANGED <<json, faults>>
           ELSE IF q = NoPath
           THEN /\ Command(Run("gui_export", "cancelled", "not_called", <<>>, args, None))
                /\ UNCHANGED <<json, faults>>
           ELSE \E io \in IOSingles :
                  /\ json' = [json EXCEPT
                                ![q] = WriteJson(@, export_presets(Get(current_save)), io)]
                  /\ Fault(io # "ok")
                  /\ Command([Run("gui_export",
                                  IF io = "ok" THEN "ok" ELSE "export_error",
                                  "export", <<"export">>, args, None)
                              EXCEPT !.out =
                                Some([count |->
                                        Len(export_presets(Get(current_save)).presets)])])

\* only the upper end of the range checked
C17_GuiSlotOk_UpperOnly(dest_slot) == ~(dest_slot > NumSlots)

GuiSlotOk(dest_slot) == ~(dest_slot < 1 \/ dest_slot > NumSlots)

\* "1-based for user", and back
\* the combobox position taken as it is
C28_GuiPresetIndex_NoShift(sel) == sel

GuiPresetIndex(combo_current) == combo_current + 1
C4_GuiEntryIndex_NoShift(preset_index) == preset_index

GuiEntryIndex(preset_index) == preset_index - 1
GuiDestIndex(dest_slot) == dest_slot - 1

C2_GuiImportSucceeded_Always(result) == TRUE

\* "if success:"
GuiImportSucceeded(result) == result.kind = "ok"

\* after a handler left through its except clause with the save mutated in
\* memory: self.presets is the save's table or an earlier parse of it
StalePresets(mutated) == {presets, Some(mutated)}

\* import_preset, show_import_dialog and do_import: q chosen in the file
\* dialog, entry sel chosen in the combobox, ds typed as destination slot
\* dict.get(key, default)
DictGet(d, key, default) == IF key \in DOMAIN d THEN d[key] ELSE default

\* show_import_dialog: the archetype in a combobox line, from the entry's
\* data as the JSON file gives it
ImportDialogBodyType(preset_data) ==
    IF DictGet(preset_data, "body_type", 0) = 0 THEN "Type A" ELSE "Type B"

\* show_import_dialog: "Preset {i+1} (Original Slot {slot+1}, {body_type})"
ImportOption(preset_entry, i) ==
    [preset |-> i + 1,
     slot |-> DictGet(preset_entry, "slot", i) + 1,
     body |-> ImportDialogBodyType(DictGet(preset_entry, "data", <<>>))]

\* show_import_dialog: the lines of the combobox
preset_options(doc) ==
    [k \in 1 .. Len(doc.presets) |-> ImportOption(doc.presets[k], k - 1)]

GuiImport(q, sel, ds) ==
    LET args == [NoArgs EXCEPT !.src = q, !.entry = sel, !.dslot = ds]
        doc == json[q].doc
        preset_index == GuiPresetIndex(sel)
        D == Get(current_save)
        path == Get(current_save_path)
        result == import_preset_from_json(D, doc, GuiEntryIndex(preset_index),
                                          GuiDestIndex(ds))
        call == Some(Call(EmptyTable, GuiEntryIndex(preset_index), D,
                          GuiDestIndex(ds), result.table))
        dialog == Some([options |-> preset_options(doc)])
        GuiKept == UNCHANGED <<disk, backup, current_save, current_save_path,
                               presets, listbox, faults>>
    IN  /\ Ready("gui_import")
        /\ UNCHANGED <<json, selected_slot>>
        /\ IF IsNone(current_save)
           THEN /\ sel = 0 /\ ds = 1
                /\ Command(Run("gui_import", "no_save", "not_called", <<>>, args, None))
                /\ GuiKept
           ELSE IF q = NoPath
           THEN /\ sel = 0 /\ ds = 1
                /\ Command(Run("gui_import", "cancelled", "not_called", <<>>, args, None))
                /\ GuiKept
           ELSE IF json[q].kind # "ok"
           THEN /\ sel = 0 /\ ds = 1
                /\ Command(Run("gui_import", "json_error", "not_called", <<>>, args, None))
                /\ GuiKept
           ELSE IF "presets" \notin DOMAIN doc \/ Len(doc.presets) = 0
           THEN /\ sel = 0 /\ ds = 1
                /\ Command(Run("gui_import", "no_presets", "not_called", <<>>, args, None))
                /\ GuiKept
           ELSE /\ sel \in 0 .. (Len(doc.presets) - 1)
                /\ IF ~GuiSlotOk(ds)
                   THEN /\ Command(Titled(Run("gui_import", "dest_range", "not_called",
                                              <<>>, args, None), dialog))
                        /\ GuiKept
                   ELSE IF GuiImportSucceeded(result)
                   THEN \E io \in IOPairs :
                          LET saved == BackupThenSave(path, result.table, io[1], io[2])
                          IN  /\ Command(Titled(Run("gui_import", saved.outcome,
                                                    result.kind, saved.fs, args, call),
                                                dialog))
                              /\ Fault(io # OkIO)
                              /\ backup' = [backup EXCEPT ![path] = saved.backup]
                              /\ disk' = [disk EXCEPT ![path] = saved.file]
                              /\ current_save_path' = current_save_path
                              /\ IF saved.outcome = "ok"
                                 THEN /\ current_save' = Some(disk'[path].table)
                                      /\ presets' = Some(disk'[path].table)
                                      /\ listbox' = populate_preset_list(presets')
                                 ELSE /\ current_save' = Some(result.table)
                                      /\ presets' \in StalePresets(result.table)
                                      /\ listbox' = listbox
                   ELSE /\ Command(Titled(Run("gui_import", "import_failed", result.kind,
                                              <<>>, args, call), dialog))
                        /\ GuiKept

\* do_import with a destination entry that int() rejects
GuiImportNotInt(q) ==
    /\ Ready("gui_import")
    /\ ~IsNone(current_save)
    /\ json[q].kind = "ok"
    /\ "presets" \in DOMAIN json[q].doc
    /\ Len(json[q].doc.presets) > 0
    /\ Command(Titled(Run("gui_import", "value_error", "not_called", <<>>,
                          [NoArgs EXCEPT !.src = q], None),
                      Some([options |-> preset_options(json[q].doc)])))
    /\ GuiUnchanged
    /\ UNCHANGED <<disk, backup, json, faults>>

\* do_copy: the negation of "dest_slot < 1 or dest_slot > 15"
GuiCopySlotOk(dest_slot) == ~(dest_slot < 1 \/ dest_slot > NumSlots)

\* do_copy: "dest_slot - 1"
GuiCopyDestIndex(dest_slot) == dest_slot - 1

GuiCopySucceeded(result) == result.kind = "ok"

\* copy_preset, show_copy_dialog and do_copy: dp in the destination path
\* entry, ds typed as destination slot
\* show_copy_dialog: "Copy preset from Slot {self.selected_slot + 1}"
GuiCopyLabel(selected) == selected + 1

GuiCopy(dp, ds) ==
    LET args == [NoArgs EXCEPT !.dst = dp, !.dslot = ds]
        S == Get(current_save)
        source_idx == Get(selected_slot)
        D == disk[dp].table
        dest_idx == GuiCopyDestIndex(ds)
        result == copy_preset_to_save(D, S, source_idx, dest_idx)
        call == Some(Call(S, source_idx, D, dest_idx, result.table))
        dialog == Some([slot |-> GuiCopyLabel(source_idx)])
    IN  /\ Ready("gui_copy")
        /\ GuiUnchanged
        /\ UNCHANGED json
        /\ IF IsNone(selected_slot)
           THEN /\ ds = 1
                /\ Command(Run("gui_copy", "no_selection", "not_called", <<>>, args, None))
                /\ UNCHANGED <<disk, backup, faults>>
           ELSE IF dp = NoPath \/ ~os_path_exists(dp)
           THEN /\ ds = 1
                /\ Command(Titled(Run("gui_copy", "invalid_path", "not_called", <<>>, args, None),
                               dialog))
                /\ UNCHANGED <<disk, backup, faults>>
           ELSE IF ~GuiCopySlotOk(ds)
           THEN /\ Command(Titled(Run("gui_copy", "dest_range", "not_called", <<>>, args, None),
                               dialog))
                /\ UNCHANGED <<disk, backup, faults>>
           ELSE IF ~Loads(dp)
           THEN /\ Command(Titled(Run("gui_copy", "load_error", "not_called", <<>>, args, None),
                               dialog))
                /\ UNCHANGED <<disk, backup, faults>>
           ELSE IF GuiCopySucceeded(result)
           THEN \E io \in IOPairs :
                  LET saved == BackupThenSave(dp, result.table, io[1], io[2])
                  IN  /\ Command(Titled(Run("gui_copy", saved.outcome, result.kind,
                                            saved.fs, args, call), dialog))
                      /\ Fault(io # OkIO)
                      /\ backup' = [backup EXCEPT ![dp] = saved.backup]
                      /\ disk' = [disk EXCEPT ![dp] = saved.file]
           ELSE /\ Command(Titled(Run("gui_copy", "copy_failed", result.kind, <<>>, args,
                                call), dialog))
                /\ UNCHANGED <<disk, backup, faults>>

\* do_copy with a destination entry that int() rejects
GuiCopyNotInt(dp) ==
    /\ Ready("gui_copy")
    /\ ~IsNone(selected_slot)
    /\ Command(Titled(Run("gui_copy", "value_error", "not_called", <<>>,
                          [NoArgs EXCEPT !.dst = dp], None),
                      Some([slot |-> GuiCopyLabel(Get(selected_slot))])))
    /\ GuiUnchanged
    /\ UNCHANGED <<disk, backup, json, faults>>

----------------------------------------------------------------------------
(* Vocabulary of the properties *)

Watched == lastRun # NoRun

CopyOps == {"cli_copy", "gui_copy"}
PersistingOps == {"cli_copy", "gui_copy", "gui_import"}

EngineCalled(run) == ~IsNone(run.call)
EngineFailed(run) == run.engine \notin {"ok", "not_called", "export"}

\* the save file a persisting command writes
TargetPath(run) ==
    IF run.op = "gui_import" THEN Get(current_save_path) ELSE run.args.dst

\* the tables the state holds
KnownTables ==
    {disk[p].table : p \in {q \in SavePaths : Loads(q)}}
        \cup {Get(s) : s \in {current_save, presets} \ {None}}

----------------------------------------------------------------------------
(* C1: a copy whose source slot is empty fails with EmptySourceError, the  *)
(* caller reports the failure, and the destination table is as before.    *)

C1_EmptySourceRejected ==
    (lastRun.op \in CopyOps /\ EngineCalled(lastRun)
        /\ is_empty(Get(lastRun.call).S[Get(lastRun.call).i]))
    => /\ lastRun.engine = "EmptySourceError"
       /\ lastRun.outcome = "copy_failed"
       /\ Get(lastRun.call).D2 = Get(lastRun.call).D
       /\ lastRun.fs = <<>>
       /\ Loads(lastRun.args.dst)
       /\ disk[lastRun.args.dst].table = Get(lastRun.call).D

C1_Witness ==
    /\ lastRun.op = "cli_copy"
    /\ EngineCalled(lastRun)
    /\ is_empty(Get(lastRun.call).S[Get(lastRun.call).i])
    /\ ~is_empty(Get(lastRun.call).D[Get(lastRun.call).j])
    /\ lastRun.engine = "EmptySourceError"

(* C2: when the engine operation fails, or the typed slot number is       *)
(* rejected, the command writes neither the ".backup" file nor the save   *)
(* file.                                                                  *)

C2_Rejected(run) ==
    /\ run.op \in PersistingOps
    /\ \/ EngineFailed(run)
       \/ run.outcome \in {"source_range", "dest_range", "value_error"}

C2_NoWriteOnFailure ==
    [][C2_Rejected(lastRun')
         => (disk' = disk /\ backup' = backup /\ lastRun'.fs = <<>>)]_vars

C2_Witness ==
    /\ lastRun.op = "gui_import"
    /\ lastRun.engine = "SchemaError"
    /\ lastRun.outcome = "import_failed"

(* C3: the backup copy is made before the save starts and holds the file  *)
(* as it was before the command, whatever the outcome of the save.        *)

C3_BackupBeforePersist ==
    [][(Watched' /\ \E k \in 1 .. Len(lastRun'.fs) : lastRun'.fs[k] = "persist")
         => /\ lastRun'.fs = <<"backup", "persist">>
            /\ backup'[TargetPath(lastRun')] = disk[TargetPath(lastRun')]]_vars

C3_Witness ==
    /\ lastRun.op \in PersistingOps
    /\ lastRun.outcome = "persist_error"
    /\ disk[TargetPath(lastRun)] = Corrupt
    /\ backup[TargetPath(lastRun)].kind = "ok"
    /\ backup[TargetPath(lastRun)].table = Get(lastRun.call).D

(* C4: exporting a table and importing the entry that came from slot i    *)
(* into any slot j of any table succeeds and leaves in slot j the field   *)
(* values of slot i.                                                      *)

\* an export: every active slot of the exported table has its entry, and
\* each entry imports into every slot of every table the state holds
C4_Export ==
    (lastRun.op = "gui_export" /\ lastRun.outcome = "ok") =>
        LET T == Get(current_save)
            doc == json[lastRun.args.dst].doc
        IN  /\ doc = export_presets(T)
            /\ \A i \in Slots :
                   ~is_empty(T[i]) =>
                       \E k \in 1 .. Len(doc.presets) : doc.presets[k].slot = i
            /\ \A k \in 1 .. Len(doc.presets), T2 \in KnownTables, j \in Slots :
                   LET r == import_preset_from_json(T2, doc, k - 1, j)
                   IN  /\ r.kind = "ok"
                       /\ r.table[j] = T[doc.presets[k].slot]

\* an import of entry k (picked in the combobox) of an exported document
\* into the typed slot j
C4_Import ==
    (lastRun.op = "gui_import" /\ EngineCalled(lastRun)) =>
        LET doc == json[lastRun.args.src].doc
            e == doc.presets[lastRun.args.entry + 1]
            j == lastRun.args.dslot - 1
            c == Get(lastRun.call)
        IN  \A T \in KnownTables \cup {TableA, TableB} :
                doc = export_presets(T) =>
                    /\ lastRun.engine = "ok"
                    /\ ~is_empty(T[e.slot])
                    /\ c.D2[j] = T[e.slot]
                    /\ lastRun.outcome = "ok"
                         => /\ Get(current_save)[j] = T[e.slot]
                            /\ disk[Get(current_save_path)].table[j] = T[e.slot]

C4_ExportImportInverse == C4_Export /\ C4_Import

C4_Witness ==
    /\ lastRun.op = "gui_import"
    /\ lastRun.outcome = "ok"
    /\ json[lastRun.args.src].doc = export_presets(TableA)
    /\ lastRun.args.entry = 1
    /\ lastRun.args.dslot = 1
    /\ Get(current_save)[0] = RecA2
    /\ disk[Get(current_save_path)].table[0] = RecA2

(* C5: copying an active slot of a table onto itself succeeds and leaves  *)
(* every slot of the table as it was, however often it is applied.        *)

C5_Engine ==
    (lastRun.op \in CopyOps /\ EngineCalled(lastRun)) =>
        \A T \in {Get(lastRun.call).S, Get(lastRun.call).D2} :
            \A i \in {Get(lastRun.call).i, Get(lastRun.call).j} :
                ~is_empty(T[i]) =>
                    LET once == copy_preset_to_save(T, T, i, i)
                        twice == copy_preset_to_save(once.table, once.table, i, i)
                    IN  /\ once = [kind |-> "ok", table |-> T]
                        /\ twice = once

\* the CLI given the same file and the same slot number twice passes the
\* same table and the same index twice
C5_CliSame ==
    (/\ lastRun.op = "cli_copy" /\ EngineCalled(lastRun)
     /\ lastRun.args.src = lastRun.args.dst
     /\ lastRun.args.sslot = lastRun.args.dslot)
    => /\ Get(lastRun.call).S = Get(lastRun.call).D
       /\ Get(lastRun.call).i = Get(lastRun.call).j

C5_Caller ==
    (/\ lastRun.op \in CopyOps /\ EngineCalled(lastRun)
     /\ Get(lastRun.call).S = Get(lastRun.call).D
     /\ Get(lastRun.call).i = Get(lastRun.call).j
     /\ ~is_empty(Get(lastRun.call).S[Get(lastRun.call).i]))
    => /\ lastRun.engine = "ok"
       /\ Get(lastRun.call).D2 = Get(lastRun.call).D
       /\ lastRun.outcome = "ok"
            => disk[lastRun.args.dst] = OkFile(Get(lastRun.call).D)

C5_SelfCopyNoOp == C5_Engine /\ C5_CliSame /\ C5_Caller

C5_Witness ==
    /\ lastRun.op = "cli_copy"
    /\ lastRun.outcome = "ok"
    /\ lastRun.args.src = lastRun.args.dst
    /\ lastRun.args.sslot = lastRun.args.dslot
    /\ ~is_empty(Get(lastRun.call).S[Get(lastRun.call).i])
    /\ disk[lastRun.args.dst] = OkFile(Get(lastRun.call).D)

(* C6: an index outside 0..14 (-1 and 15 among them) makes copy, slot,    *)
(* replace_slot and import return a range error and leave the table as    *)
(* it was (checked on the tables of every engine call the program         *)
(* makes); the callers reject the slot numbers 0 and 16 with a range      *)
(* message and never pass a clamped or wrapped index on.                  *)

OutOfRange == {-2, -1, NumSlots, NumSlots + 1}
ValidSlotNumbers == 1 .. NumSlots

C6_Engine ==
    EngineCalled(lastRun) =>
        LET c == Get(lastRun.call)
        IN  \A x \in OutOfRange :
              /\ slot(c.D, x).kind = "SlotRangeError"
              /\ replace_slot(c.D, x, RecA1)
                     = [kind |-> "SlotRangeError", table |-> c.D]
              /\ import_preset_from_json(c.D, DocMixed, 0, x)
                     = [kind |-> "DestRangeError", table |-> c.D]
              /\ \A y \in {c.i, c.j} \cup OutOfRange :
                     /\ copy_preset_to_save(c.D, c.S, x, y)
                            = [kind |-> "SlotRangeError", table |-> c.D]
                     /\ copy_preset_to_save(c.D, c.S, y, x)
                            = [kind |-> "SlotRangeError", table |-> c.D]

C6_Callers ==
    /\ (/\ lastRun.op = "cli_copy"
        /\ lastRun.outcome \notin {"load_error", "value_error"}
        /\ \/ lastRun.args.sslot \notin ValidSlotNumbers
           \/ lastRun.args.dslot \notin ValidSlotNumbers)
       => /\ lastRun.outcome \in {"source_range", "dest_range"}
          /\ ~EngineCalled(lastRun)
          /\ lastRun.fs = <<>>
    /\ (/\ lastRun.op = "cli_info"
        /\ lastRun.outcome # "load_error"
        /\ lastRun.args.sslot \notin ValidSlotNumbers)
       => lastRun.outcome = "slot_range"
    /\ (/\ lastRun.op \in {"gui_copy", "gui_import"}
        /\ lastRun.args.dslot \notin ValidSlotNumbers)
       => ~EngineCalled(lastRun) /\ lastRun.fs = <<>>
    /\ (lastRun.op \in PersistingOps /\ EngineCalled(lastRun))
       => /\ Get(lastRun.call).j = lastRun.args.dslot - 1
          /\ Get(lastRun.call).j \in Slots
          /\ lastRun.op \in CopyOps => Get(lastRun.call).i \in Slots

C6_RangeErrors == C6_Engine /\ C6_Callers

C6_Witness ==
    /\ lastRun.op = "cli_copy"
    /\ lastRun.args.dslot = NumSlots + 1
    /\ lastRun.args.sslot = NumSlots
    /\ lastRun.outcome = "dest_range"
    /\ disk[lastRun.args.dst].kind = "ok"

(* C7: in every reachable state every preset table (in a save file, in   *)
(* the GUI, passed to or returned by the engine) has exactly the 15       *)
(* slots 0..14 and every slot holds a record; so every slot index the     *)
(* info command and the details window accept yields a record.            *)

IsRecord(r) ==
    /\ DOMAIN r = 1 .. RecordWidth
    /\ \A k \in 1 .. RecordWidth : r[k] \in 0 .. MaxFieldValue

IsTable(t) == DOMAIN t = Slots /\ \A i \in Slots : IsRecord(t[i])

CallTables ==
    IF EngineCalled(lastRun)
    THEN {Get(lastRun.call).S, Get(lastRun.call).D, Get(lastRun.call).D2}
    ELSE {}

C7_FifteenRecords ==
    /\ \A t \in KnownTables \cup CallTables : IsTable(t)
    /\ lastRun.op \in {"cli_info", "gui_details"}
         => /\ lastRun.outcome # "exception"
            /\ lastRun.outcome = "shown" => IsRecord(Get(lastRun.out).record)

C7_Witness ==
    /\ lastRun.op = "cli_info"
    /\ lastRun.args.src = "B"
    /\ lastRun.args.sslot = NumSlots
    /\ lastRun.outcome = "shown"
    /\ IsTable(disk["B"].table)

(* C8: get_active_presets returns exactly the pairs (i, record) of the    *)
(* slots whose record is not empty, each once, in strictly ascending      *)
(* index order, whatever the order in which the slots were filled; the    *)
(* GUI list and the selection follow that order.                          *)

ActiveIndices(t) == {i \in Slots : ~is_empty(t[i])}

ActiveExact(t, a) ==
    /\ {a[k][1] : k \in 1 .. Len(a)} = ActiveIndices(t)
    /\ \A k \in 1 .. Len(a) : a[k][2] = t[a[k][1]]
    /\ \A k \in 1 .. (Len(a) - 1) : a[k][1] < a[k + 1][1]

C8_Engine == \A t \in KnownTables : ActiveExact(t, get_active_presets(t))

C8_Listbox ==
    (lastRun.op = "gui_load" /\ lastRun.outcome = "ok") =>
        LET t == Get(presets)
        IN  IF ActiveIndices(t) = {}
            THEN listbox = <<NoPresetsLine>>
            ELSE /\ {listbox[k].slot - 1 : k \in 1 .. Len(listbox)} = ActiveIndices(t)
                 /\ \A k \in 1 .. (Len(listbox) - 1) :
                        listbox[k].slot < listbox[k + 1].slot

C8_Select ==
    (/\ lastRun.op = "gui_select"
     /\ lastRun.args.entry < Cardinality(ActiveIndices(Get(presets))))
    => /\ Get(selected_slot) \in ActiveIndices(Get(presets))
       /\ Cardinality({i \in ActiveIndices(Get(presets)) : i < Get(selected_slot)})
              = lastRun.args.entry

C8_ActiveAscending == C8_Engine /\ C8_Listbox /\ C8_Select

C8_Witness ==
    /\ lastRun.op = "gui_load"
    /\ lastRun.outcome = "ok"
    /\ Get(presets) # TableA
    /\ Len(listbox) = 2
    /\ listbox[1].slot = 1
    /\ listbox[2].slot = NumSlots

(* C9: a slot that holds the same non-empty field values as the slot a   *)
(* command overwrites (as the source and the destination of an earlier    *)
(* copy do) is independent of it: the engine call leaves it unchanged in  *)
(* the table, and the save leaves it unchanged in every save file.  The   *)
(* file written is compared where the command's table was the file's      *)
(* content (a GUI import over a table loaded before the file changed      *)
(* rewrites the whole file from that table).                              *)

C10_PersistOnlyAfterSuccess ==
    [][Watched' =>
          LET persisted == \E k \in 1 .. Len(lastRun'.fs) : lastRun'.fs[k] = "persist"
          IN  /\ disk' # disk => persisted
              /\ persisted => (lastRun'.engine = "ok" /\ lastRun'.op \in PersistingOps)
              /\ (lastRun'.op \in CopyOps /\ EngineCalled(lastRun') /\ ~persisted)
                   => /\ disk' = disk
                      /\ lastRun'.outcome \in {"copy_failed", "backup_error"}]_vars

C10_Witness ==
    /\ lastRun.op \in CopyOps
    /\ lastRun.outcome = "ok"
    /\ lastRun.fs = <<"backup", "persist">>
    /\ Get(lastRun.call).D2 # Get(lastRun.call).D
    /\ disk[lastRun.args.dst] = OkFile(Get(lastRun.call).D2)
    /\ backup[lastRun.args.dst] = OkFile(Get(lastRun.call).D)

(* C11: an export writes exactly one entry per active slot of the table,  *)
(* in ascending slot order, each entry carrying the index of the slot it  *)
(* was exported from and that slot's field values; a table without an     *)
(* active slot exports as a document of zero entries, and neither caller  *)
(* reports that as a failure.                                             *)

ExportOps == {"cli_export", "gui_export"}

\* the table an export command exported
ExportedTable(run) ==
    IF run.op = "cli_export" THEN disk[run.args.src].table ELSE Get(current_save)

C11_ExportEntries ==
    (/\ lastRun.op \in ExportOps
     /\ lastRun.outcome \notin {"load_error", "no_save", "cancelled"}
     /\ faults = 0)
    => LET T == ExportedTable(lastRun)
           file == json[lastRun.args.dst]
           entries == file.doc.presets
       IN  /\ file.kind = "ok"
           /\ Len(entries) = Cardinality(ActiveIndices(T))
           /\ {entries[k].slot : k \in 1 .. Len(entries)} = ActiveIndices(T)
           /\ \A k \in 1 .. Len(entries) :
                  entries[k].data = decode(T[entries[k].slot])
           /\ \A k \in 1 .. (Len(entries) - 1) :
                  entries[k].slot < entries[k + 1].slot
           /\ Get(lastRun.out).count = Len(entries)
           /\ lastRun.outcome \in {"ok", "none_exported"}
           /\ ActiveIndices(T) = {} => entries = <<>>

C11_Witness ==
    /\ lastRun.op = "cli_export"
    /\ lastRun.outcome = "none_exported"
    /\ faults = 0
    /\ ActiveIndices(disk[lastRun.args.src].table) = {}
    /\ json[lastRun.args.dst] = OkJson([presets |-> <<>>])

(* C12: import fails with EntryRangeError for an entry index outside the *)
(* document, with DestRangeError for a destination index outside 0..14,   *)
(* and leaves the destination table unchanged (evaluated on the document  *)
(* and the table of every import the GUI makes); the GUI itself passes    *)
(* only indices in range.                                                 *)

ImportCalled == lastRun.op = "gui_import" /\ EngineCalled(lastRun)

ImportedDoc == json[lastRun.args.src].doc

C12_ImportRangeErrors ==
    ImportCalled =>
        LET c == Get(lastRun.call)
            n == Len(ImportedDoc.presets)
            badEntries == {-2, -1, n, n + 1}
        IN  /\ \A x \in badEntries :
                   import_preset_from_json(c.D, ImportedDoc, x, c.j)
                       = [kind |-> "EntryRangeError", table |-> c.D]
            /\ \A y \in OutOfRange :
                   import_preset_from_json(c.D, ImportedDoc, c.i, y)
                       = [kind |-> "DestRangeError", table |-> c.D]
            /\ \A x \in badEntries, y \in OutOfRange :
                   LET r == import_preset_from_json(c.D, ImportedDoc, x, y)
                   IN  /\ r.kind \in {"EntryRangeError", "DestRangeError"}
                       /\ r.table = c.D
            /\ c.i \in 0 .. (n - 1)
            /\ c.j \in Slots
            /\ lastRun.engine \notin {"EntryRangeError", "DestRangeError"}

C12_Witness ==
    /\ ImportCalled
    /\ lastRun.outcome = "ok"
    /\ Get(lastRun.call).i = Len(ImportedDoc.presets) - 1
    /\ Get(lastRun.call).j = NumSlots - 1
    /\ Len(ImportedDoc.presets) = 2

(* C13: whether an import succeeds does not depend on what the            *)
(* destination slot holds: the same entry imports into the slot when it   *)
(* is empty and when it is occupied, and the occupied record is           *)
(* overwritten.                                                           *)

C13_ImportIgnoresDestination ==
    ImportCalled =>
        LET c == Get(lastRun.call)
            emptied == [c.D EXCEPT ![c.j] = EmptyRecord]
            occupied == [c.D EXCEPT ![c.j] = RecA2]
            onEmpty == import_preset_from_json(emptied, ImportedDoc, c.i, c.j)
            onOccupied == import_preset_from_json(occupied, ImportedDoc, c.i, c.j)
        IN  /\ onEmpty.kind = lastRun.engine
            /\ onOccupied.kind = lastRun.engine
            /\ lastRun.engine = "ok"
                 => /\ onEmpty.table = c.D2
                    /\ onOccupied.table = c.D2
                    /\ c.D2[c.j] = encode(ImportedDoc.presets[c.i + 1].data)

C13_Witness ==
    /\ ImportCalled
    /\ lastRun.outcome = "ok"
    /\ ~is_empty(Get(lastRun.call).D[Get(lastRun.call).j])
    /\ Get(lastRun.call).D2[Get(lastRun.call).j]
           # Get(lastRun.call).D[Get(lastRun.call).j]
    /\ Get(current_save) = Get(lastRun.call).D2

(* C14: an entry whose data names a field the schema does not declare,    *)
(* or lacks a declared field, is refused (UnknownFieldError, SchemaError) *)
(* and the destination table, the loaded save and the files stay as they  *)
(* were.                                                                  *)

ImportedData == ImportedDoc.presets[Get(lastRun.call).i + 1].data

C14_UnknownOrMissingField ==
    (ImportCalled /\ DOMAIN ImportedData # FieldNames) =>
        /\ lastRun.engine
               = IF DOMAIN ImportedData \ FieldNames # {}
                 THEN "UnknownFieldError" ELSE "SchemaError"
        /\ lastRun.outcome = "import_failed"
        /\ lastRun.fs = <<>>
        /\ Get(lastRun.call).D2 = Get(lastRun.call).D
        /\ Get(current_save) = Get(lastRun.call).D

C14_Witness ==
    /\ ImportCalled
    /\ "wings" \in DOMAIN ImportedData
    /\ lastRun.engine = "UnknownFieldError"
    /\ ~is_empty(Get(lastRun.call).D[Get(lastRun.call).j])

(* C15: the slot an import writes is the destination the user typed; the  *)
(* slot recorded in the entry decides nothing, so the same entry with any *)
(* other recorded slot gives the same table.                              *)

WithSlot(doc, k, n) == [presets |-> [doc.presets EXCEPT ![k] = [@ EXCEPT !.slot = n]]]

C15_OriginalSlotUnused ==
    ImportCalled =>
        LET c == Get(lastRun.call)
        IN  /\ c.j = lastRun.args.dslot - 1
            /\ \A n \in Slots \ {c.j} : c.D2[n] = c.D[n]
            /\ \A n \in Slots \cup {-1, NumSlots} :
                   import_preset_from_json(c.D, WithSlot(ImportedDoc, c.i + 1, n),
                                           c.i, c.j)
                       = [kind |-> lastRun.engine, table |-> c.D2]

C15_Witness ==
    /\ ImportCalled
    /\ lastRun.outcome = "ok"
    /\ ImportedDoc.presets[Get(lastRun.call).i + 1].slot # Get(lastRun.call).j
    /\ is_empty(Get(lastRun.call).D[ImportedDoc.presets[Get(lastRun.call).i + 1].slot])
    /\ is_empty(Get(current_save)[ImportedDoc.presets[Get(lastRun.call).i + 1].slot])
    /\ ~is_empty(Get(current_save)[Get(lastRun.call).j])

(* C16: a slot number n in 1..15 typed by the user reaches the engine as  *)
(* index n-1 (CLI copy source and destination, CLI info, GUI copy and GUI *)
(* import destination), and an index i the tool shows (CLI list, GUI      *)
(* list, details title, copy dialog label, import dialog lines) is shown  *)
(* as i+1.                                                                *)

C16_Inward ==
    /\ (lastRun.op = "cli_copy" /\ EngineCalled(lastRun))
       => /\ Get(lastRun.call).i = lastRun.args.sslot - 1
          /\ Get(lastRun.call).j = lastRun.args.dslot - 1
    /\ (lastRun.op = "cli_info" /\ lastRun.outcome = "shown")
       => Get(lastRun.out).record
              = disk[lastRun.args.src].table[lastRun.args.sslot - 1]
    /\ (lastRun.op = "cli_info" /\ lastRun.outcome = "empty")
       => is_empty(disk[lastRun.args.src].table[lastRun.args.sslot - 1])
    /\ (lastRun.op = "gui_copy" /\ EngineCalled(lastRun))
       => /\ Get(lastRun.call).i = Get(selected_slot)
          /\ Get(lastRun.call).j = lastRun.args.dslot - 1
    /\ ImportCalled
       => /\ Get(lastRun.call).i = lastRun.args.entry
          /\ Get(lastRun.call).j = lastRun.args.dslot - 1

C16_Outward ==
    /\ (lastRun.op = "cli_list" /\ lastRun.outcome = "shown")
       => LET active == get_active_presets(disk[lastRun.args.src].table)
              lines == Get(lastRun.out).lines
          IN  /\ Len(lines) = Len(active)
              /\ \A k \in 1 .. Len(lines) : lines[k].slot = active[k][1] + 1
    /\ (lastRun.op = "cli_info" /\ lastRun.outcome \in {"shown", "empty"})
       => Get(lastRun.out).slot = lastRun.args.sslot
    /\ (lastRun.op = "gui_load" /\ lastRun.outcome = "ok"
            /\ ActiveIndices(Get(presets)) # {})
       => LET active == get_active_presets(Get(presets))
          IN  /\ Len(listbox) = Len(active)
              /\ \A k \in 1 .. Len(listbox) : listbox[k].slot = active[k][1] + 1
    /\ (lastRun.op = "gui_details" /\ lastRun.outcome = "shown")
       => /\ Get(lastRun.out).slot = Get(selected_slot) + 1
          /\ Get(lastRun.out).record = Get(presets)[Get(selected_slot)]
    /\ (lastRun.op = "gui_copy" /\ ~IsNone(lastRun.out))
       => Get(lastRun.out).slot = Get(selected_slot) + 1
    /\ (lastRun.op = "gui_import" /\ ~IsNone(lastRun.out))
       => LET options == Get(lastRun.out).options
              entries == ImportedDoc.presets
          IN  /\ Len(options) = Len(entries)
              /\ \A k \in 1 .. Len(options) :
                     /\ options[k].preset = k
                     /\ options[k].slot = entries[k].slot + 1

C16_TranslatedOnce == C16_Inward /\ C16_Outward

C16_Witness ==
    /\ lastRun.op = "cli_copy"
    /\ lastRun.outcome = "ok"
    /\ lastRun.args.sslot = NumSlots
    /\ lastRun.args.dslot = 1
    /\ Get(lastRun.call).i = NumSlots - 1
    /\ Get(lastRun.call).j = 0

(* C17: a slot number outside 1..15 (0, 16, a negative number) makes the  *)
(* command end with an error: the engine is not called, no record is      *)
(* shown, and no file and no loaded table changes.                        *)

SlotErrors == {"load_error", "source_range", "dest_range", "slot_range"}

\* the run was given a slot number outside 1..15
BadSlotNumber(run) ==
    /\ run.outcome # "value_error"
    /\ \/ /\ run.op = "cli_copy"
          /\ \/ run.args.sslot \notin ValidSlotNumbers
             \/ run.args.dslot \notin ValidSlotNumbers
       \/ /\ run.op = "cli_info"
          /\ run.args.sslot \notin ValidSlotNumbers
       \/ /\ run.op \in {"gui_copy", "gui_import"}
          /\ run.args.dslot \notin ValidSlotNumbers

C17_Step ==
    (lastRun = NoRun /\ lastRun' # NoRun /\ BadSlotNumber(lastRun'))
    => /\ lastRun'.outcome \in SlotErrors
       /\ lastRun'.op \in {"gui_copy", "gui_import"} => lastRun'.outcome = "dest_range"
       /\ ~EngineCalled(lastRun')
       /\ lastRun'.fs = <<>>
       /\ lastRun'.op = "cli_info" => IsNone(lastRun'.out)
       /\ UNCHANGED <<disk, backup, json, current_save, presets, listbox>>

Discriminator(r) == r[FieldIndex("body_type")]

\* the archetype of a discriminator value
BodyTypeRule(v) == IF v = 1 THEN "B" ELSE "A"

\* the archetype a text on the screen names
ArchetypeShown(text) ==
    IF text \in {"Type A", "Type A (Male)"} THEN "A"
    ELSE IF text \in {"Type B", "Type B (Female)"} THEN "B"
    ELSE "neither"

\* the surfaces that show a record of a save file
C18_SavedRecords ==
    /\ (lastRun.op = "cli_list" /\ lastRun.outcome = "shown")
       => LET active == get_active_presets(disk[lastRun.args.src].table)
              lines == Get(lastRun.out).lines
          IN  \A k \in 1 .. Len(lines) :
                  ArchetypeShown(lines[k].body)
                      = BodyTypeRule(Discriminator(active[k][2]))
    /\ (lastRun.op \in {"cli_info", "gui_details"} /\ lastRun.outcome = "shown")
       => ArchetypeShown(Get(lastRun.out).body)
              = BodyTypeRule(Discriminator(Get(lastRun.out).record))
    /\ (lastRun.op = "gui_load" /\ lastRun.outcome = "ok"
            /\ ActiveIndices(Get(presets)) # {})
       => LET active == get_active_presets(Get(presets))
          IN  \A k \in 1 .. Len(listbox) :
                  ArchetypeShown(listbox[k].body)
                      = BodyTypeRule(Discriminator(active[k][2]))

\* the lines of the import dialog
C18_ImportDialog ==
    (lastRun.op = "gui_import" /\ ~IsNone(lastRun.out))
    => LET options == Get(lastRun.out).options
           entries == ImportedDoc.presets
       IN  \A k \in 1 .. Len(options) :
               ArchetypeShown(options[k].body)
                   = BodyTypeRule(DictGet(entries[k].data, "body_type", 0))

C18_BodyTypeEverywhere == C18_SavedRecords /\ C18_ImportDialog

(* C19: a record is empty exactly when every field holds zero; a record  *)
(* whose first field is zero and another field is not is reported as not  *)
(* empty (by info, by details and in the lists).                          *)

AllFieldsZero(r) == \A name \in FieldNames : decode(r)[name] = 0

C19_EmptyIffAllZero ==
    /\ (lastRun.op = "cli_info" /\ lastRun.outcome \in {"shown", "empty"})
       => LET r == disk[lastRun.args.src].table[lastRun.args.sslot - 1]
          IN  /\ is_empty(r) <=> AllFieldsZero(r)
              /\ lastRun.outcome = "empty" <=> AllFieldsZero(r)
    /\ (lastRun.op = "gui_details" /\ lastRun.outcome \in {"shown", "empty"})
       => LET r == Get(presets)[Get(selected_slot)]
          IN  /\ is_empty(r) <=> AllFieldsZero(r)
              /\ lastRun.outcome = "empty" <=> AllFieldsZero(r)
    /\ (lastRun.op = "cli_list" /\ lastRun.outcome \in {"shown", "none"})
       => LET t == disk[lastRun.args.src].table
              lines == Get(lastRun.out).lines
          IN  {lines[k].slot - 1 : k \in 1 .. Len(lines)}
                  = {i \in Slots : ~AllFieldsZero(t[i])}
    /\ EngineCalled(lastRun)
       => \A i \in Slots :
              is_empty(Get(lastRun.call).D2[i]) <=> AllFieldsZero(Get(lastRun.call).D2[i])

C19_Witness ==
    /\ lastRun.op = "cli_info"
    /\ lastRun.outcome = "shown"
    /\ Get(lastRun.out).record[1] = 0
    /\ Get(lastRun.out).record # EmptyRecord

(* C20: decode and encode are inverses on in-range data: for a field      *)
(* value map m with values in range decode(encode(m)) = m, for a record r *)
(* decode(encode(decode(r))) = decode(r), and encode yields a buffer of   *)
(* exactly the record width; on sample maps and on every record and every *)
(* in-range entry the commands handle.                                    *)

InRange(m) ==
    /\ DOMAIN m = FieldNames
    /\ \A name \in FieldNames : m[name] \in 0 .. MaxFieldValue

RoundTripMap(m) ==
    /\ decode(encode(m)) = m
    /\ Len(encode(m)) = RecordWidth
    /\ DOMAIN encode(m) = 1 .. RecordWidth

RoundTripRecord(r) ==
    /\ decode(encode(decode(r))) = decode(r)
    /\ encode(decode(r)) = r
    /\ Len(encode(decode(r))) = RecordWidth

SampleMaps == [FieldNames -> {0, 1, MaxFieldValue}]

C20_Samples == \A m \in SampleMaps : RoundTripMap(m) /\ RoundTripRecord(encode(m))

Taxonomy ==
    {"SlotRangeError", "EmptySourceError", "EntryRangeError", "DestRangeError",
     "UnknownFieldError", "ValueRangeError", "SchemaError", "IOError"}

\* copy_preset, else branch: "Possible reasons: - Source preset slot is
\* empty - Invalid slot numbers"
CliCopyFailureReasons == {"EmptySourceError", "SlotRangeError"}

\* do_copy, else branch: the same two reasons in the "Copy Failed" box
GuiCopyFailureReasons == {"EmptySourceError", "SlotRangeError"}

\* do_import, else branch: "Check that the JSON file is valid and the slot
\* is available."
GuiImportFailureReasons ==
    {"EntryRangeError", "UnknownFieldError", "ValueRangeError", "SchemaError",
     "DestRangeError"}

\* the kinds the failure message of a run leaves possible
FailureReasons(run) ==
    CASE run.op = "cli_copy" -> CliCopyFailureReasons
      [] run.op = "gui_copy" -> GuiCopyFailureReasons
      [] run.op = "gui_import" -> GuiImportFailureReasons
      [] OTHER -> {}

\* one kind, and a failure is never taken for a success
C21_Kinds ==
    /\ EngineCalled(lastRun) => lastRun.engine \in Taxonomy \cup {"ok"}
    /\ EngineFailed(lastRun)
       => /\ lastRun.outcome \in {"copy_failed", "import_failed"}
          /\ lastRun.fs = <<>>
          /\ Get(lastRun.call).D2 = Get(lastRun.call).D
          /\ lastRun.engine \in FailureReasons(lastRun)

\* the report names the kind
C21_Told == EngineFailed(lastRun) => FailureReasons(lastRun) = {lastRun.engine}

C21_FailureKindSurfaced == C21_Kinds /\ C21_Told

(* C22: a successful copy or import changes exactly one slot: only slot  *)
(* j of the destination table may differ from before, the source table    *)
(* (the other save file, the GUI's loaded table) and the document are     *)
(* unchanged, and an import into a fresh empty table leaves slot j as     *)
(* its only active slot.                                                  *)

C22_Step ==
    (lastRun = NoRun /\ EngineCalled(lastRun') /\ lastRun'.engine = "ok") =>
        LET run == lastRun'
            c == Get(run.call)
        IN  /\ \A n \in Slots \ {c.j} : c.D2[n] = c.D[n]
            /\ json' = json
            /\ run.op \in CopyOps
               => /\ c.D2[c.j] = c.S[c.i]
                  /\ \A p \in SavePaths \ {run.args.dst} : disk'[p] = disk[p]
                  /\ run.outcome = "ok"
                     => \A n \in Slots \ {c.j} :
                            disk'[run.args.dst].table[n] = disk[run.args.dst].table[n]
            /\ run.op = "cli_copy"
               => (run.args.src # run.args.dst => disk'[run.args.src].table = c.S)
            /\ run.op = "gui_copy"
               => current_save' = current_save /\ Get(current_save') = c.S
            /\ run.op = "gui_import"
               => LET doc == json[run.args.src].doc
                      fresh == import_preset_from_json(EmptyTable, doc, c.i, c.j)
                  IN  /\ fresh.kind = "ok"
                      /\ get_active_presets(fresh.table)
                             = << <<c.j, encode(doc.presets[c.i + 1].data)>> >>
                      /\ c.D = EmptyTable => get_active_presets(c.D2) = << <<c.j, c.D2[c.j]>> >>

C22_OneSlotChanged == [][C22_Step]_vars

C22_Witness ==
    /\ ImportCalled
    /\ lastRun.outcome = "ok"
    /\ Get(lastRun.call).D = EmptyTable
    /\ Get(lastRun.call).j = NumSlots - 1
    /\ get_active_presets(Get(current_save))
           = << <<NumSlots - 1, encode(ImportedData)>> >>
    /\ disk[Get(current_save_path)].table = Get(lastRun.call).D2

(* C23: in the GUI a successful copy or import changes, in the save file  *)
(* it writes, only the slot it targets: what an earlier successful        *)
(* operation wrote to another slot of that file stays on disk (a copy     *)
(* into the loaded save file followed by an import into another slot      *)
(* keeps the copied preset).                                              *)

GuiPersistingOps == {"gui_copy", "gui_import"}

C23_Step ==
    (/\ lastRun = NoRun
     /\ lastRun'.op \in GuiPersistingOps
     /\ lastRun'.outcome = "ok"
     /\ faults' = 0)
    => LET tp == TargetPath(lastRun')
       IN  \A n \in Slots \ {Get(lastRun'.call).j} :
               disk'[tp].table[n] = disk[tp].table[n]

C23_NoLostUpdate == [][C23_Step]_vars

(* C24: in the GUI selected_slot is None or the index of a slot that is   *)
(* active in the loaded table, in every state; so the source slot the     *)
(* copy dialog hands to copy_preset_to_save is an active slot of the      *)
(* loaded save, also after another save file was loaded.                  *)

SelectionActive ==
    \/ IsNone(selected_slot)
    \/ /\ ~IsNone(current_save)
       /\ Get(selected_slot) \in ActiveIndices(Get(current_save))

C24_SelectionActive ==
    /\ SelectionActive
    /\ (lastRun.op = "gui_copy" /\ EngineCalled(lastRun))
       => Get(lastRun.call).i \in ActiveIndices(Get(lastRun.call).S)

(* C25: in CLI copy, GUI copy and GUI import, when the backup copy fails  *)
(* (after it the backup file does not hold the save file's content) the   *)
(* save is not run, the save file keeps the content it had before the     *)
(* command, and the command ends with an error.                           *)

BackupFailed(run) ==
    /\ run.op \in PersistingOps
    /\ run.engine = "ok"
    /\ \/ backup'[TargetPath(run)] # disk[TargetPath(run)]
       \/ run.outcome = "backup_error"

C25_Step ==
    (lastRun = NoRun /\ lastRun' # NoRun /\ BackupFailed(lastRun'))
    => /\ lastRun'.fs = <<"backup">>
       /\ lastRun'.outcome = "backup_error"
       /\ disk' = disk
       /\ backup'[TargetPath(lastRun')] \in {backup[TargetPath(lastRun')], Corrupt}

C25_NoPersistAfterFailedBackup == [][C25_Step]_vars

C25_Witness ==
    /\ lastRun.op = "gui_import"
    /\ lastRun.outcome = "backup_error"
    /\ backup[TargetPath(lastRun)] = Corrupt
    /\ disk[TargetPath(lastRun)].kind = "ok"
    /\ disk[TargetPath(lastRun)].table # Get(lastRun.call).D2

(* C26: after a successful copy or import saved to a file P, P.backup     *)
(* holds exactly what P held immediately before that save: each           *)
(* operation overwrites the backup of the one before, so one operation    *)
(* can be undone and older content is not kept.                           *)

C26_Step ==
    (lastRun = NoRun /\ lastRun'.op \in PersistingOps /\ lastRun'.outcome = "ok")
    => LET tp == TargetPath(lastRun')
       IN  /\ backup'[tp] = disk[tp]
           /\ disk'[tp] = OkFile(Get(lastRun'.call).D2)
           /\ \A p \in SavePaths \ {tp} : backup'[p] = backup[p]
           /\ (backup[tp] # Missing /\ backup[tp] # disk[tp]) => backup'[tp] # backup[tp]

C26_SingleBackup == [][C26_Step]_vars

C26_Witness ==
    /\ lastRun.op \in PersistingOps
    /\ lastRun.outcome = "ok"
    /\ TargetPath(lastRun) = "B"
    /\ backup["B"].kind = "ok"
    /\ backup["B"].table \notin {TableB, disk["B"].table}
    /\ disk["B"].table[Get(lastRun.call).j] # backup["B"].table[Get(lastRun.call).j]

(* C27: in the GUI export and import are refused with an error while no  *)
(* save file is loaded, details and copy are refused while nothing is     *)
(* selected; a refused command calls no engine operation, writes no file  *)
(* and leaves the loaded table, the selection and the files unchanged.    *)

NeedsSave == {"gui_export", "gui_import"}
NeedsSelection == {"gui_details", "gui_copy"}

Refused(run) ==
    /\ ~EngineCalled(run)
    /\ run.engine = "not_called"
    /\ run.fs = <<>>
    /\ IsNone(run.out)
    /\ UNCHANGED <<disk, backup, json, current_save, current_save_path, presets,
                   selected_slot, listbox>>

C27_Step ==
    (lastRun = NoRun /\ lastRun' # NoRun) =>
        /\ (lastRun'.op \in NeedsSave /\ IsNone(current_save))
           => lastRun'.outcome = "no_save" /\ Refused(lastRun')
        /\ (lastRun'.op \in NeedsSelection /\ IsNone(selected_slot))
           => lastRun'.outcome = "no_selection" /\ Refused(lastRun')
        /\ (lastRun'.op \in NeedsSave /\ lastRun'.engine # "not_called")
           => ~IsNone(current_save)
        /\ (lastRun'.op = "gui_copy" /\ lastRun'.engine # "not_called")
           => ~IsNone(selected_slot) /\ ~IsNone(current_save)

C27_GuiPreconditions == [][C27_Step]_vars

C27_Witness ==
    /\ lastRun.op = "gui_export"
    /\ lastRun.outcome = "no_save"
    /\ lastRun.args.dst \in JsonPaths
    /\ IsNone(current_save)
    /\ json["K"] = OkJson(DocNoKey)

(* C28: the import dialog calls import_preset_from_json only with an      *)
(* entry index k with 0 <= k < number of entries of the document: a       *)
(* document without a 'presets' list or with no entries is rejected       *)
(* before the dialog opens, and k is the position of the entry chosen in  *)
(* the combobox.                                                          *)

HasEntries(doc) == "presets" \in DOMAIN doc /\ Len(doc.presets) > 0

C28_EntryIndexInRange ==
    /\ ImportCalled
       => /\ HasEntries(ImportedDoc)
          /\ Get(lastRun.call).i \in 0 .. (Len(ImportedDoc.presets) - 1)
          /\ Get(lastRun.call).i = lastRun.args.entry
          /\ Len(Get(lastRun.out).options) = Len(ImportedDoc.presets)
          /\ lastRun.engine # "EntryRangeError"
    /\ (/\ lastRun.op = "gui_import"
        /\ lastRun.outcome \notin {"no_save", "cancelled", "json_error"}
        /\ ~HasEntries(ImportedDoc))
       => /\ lastRun.outcome = "no_presets"
          /\ ~EngineCalled(lastRun)
          /\ IsNone(lastRun.out)
          /\ lastRun.fs = <<>>

C28_Witness ==
    /\ ImportCalled
    /\ Len(ImportedDoc.presets) = 4
    /\ lastRun.args.entry = 3
    /\ Get(lastRun.call).i = 3
    /\ lastRun.engine = "ValueRangeError"

(* C29: CLI list, CLI info and the CLI and GUI export never change a     *)
(* save file, a backup file or the loaded table; list and info write      *)
(* nothing, and an export writes the chosen JSON file only.               *)

ReadOnlyOps == {"cli_list", "cli_info", "cli_export", "gui_export"}

C29_Step ==
    (lastRun = NoRun /\ lastRun'.op \in ReadOnlyOps)
    => /\ disk' = disk
       /\ backup' = backup
       /\ UNCHANGED <<current_save, current_save_path, presets, selected_slot, listbox>>
       /\ ~EngineCalled(lastRun')
       /\ IF lastRun'.op \in ExportOps
          THEN /\ lastRun'.fs \in {<<>>, <<"export">>}
               /\ \A q \in JsonPaths \ {lastRun'.args.dst} : json'[q] = json[q]
               /\ lastRun'.fs = <<>> => json' = json
          ELSE lastRun'.fs = <<>> /\ json' = json

----------------------------------------------------------------------------
(* The system: the files, the GUI as constructed, no command issued yet *)

Start ==
    /\ disk = [p \in SavePaths |-> IF p = "A" THEN OkFile(TableA) ELSE OkFile(TableB)]
    /\ backup = [p \in SavePaths |-> Missing]
    /\ json = [q \in JsonPaths |-> IF q = "J" THEN OkJson(DocMixed) ELSE OkJson(DocNoKey)]
    /\ current_save = None
    /\ current_save_path = None
    /\ presets = None
    /\ selected_slot = None
    /\ listbox = <<>>
    /\ lastRun = NoRun
    /\ faults = 0

Init == Start /\ budget = MaxOps

GuiInit == Start /\ budget = MaxGuiOps

CliNext ==
    \/ \E sp \in SavePaths, dp \in SavePaths, ss \in UserSlots, ds \in UserSlots :
          CliCopy(sp, ss, dp, ds)
    \/ CliCopyNotInt
    \/ \E p \in SavePaths, n \in UserSlots : CliInfo(p, n)
    \/ \E p \in SavePaths, q \in JsonPaths : CliExport(p, q)
    \/ \E p \in SavePaths : CliList(p)

GuiNext ==
    \/ \E p \in SavePaths \cup {NoPath} : GuiLoad(p)
    \/ \E sel \in 0 .. (NumSlots - 1) : GuiSelect(sel)
    \/ GuiDetails
    \/ \E q \in JsonPaths \cup {NoPath} : GuiExport(q)
    \/ \E q \in JsonPaths \cup {NoPath}, sel \in 0 .. (NumSlots - 1), ds \in UserSlots :
          GuiImport(q, sel, ds)
    \/ \E q \in JsonPaths : GuiImportNotInt(q)
    \/ \E dp \in SavePaths \cup {NoPath}, ds \in UserSlots : GuiCopy(dp, ds)
    \/ \E dp \in SavePaths : GuiCopyNotInt(dp)

Next == CliNext \/ GuiNext

\* the command-line tool and the GUI working on the same files
Spec == Init /\ [][Next]_vars

\* the GUI alone, over longer sessions
GuiSpec == GuiInit /\ [][GuiNext]_vars

====
